---- MODULE Spec2Model ----
(***************************************************************************)
(* Model of vsock/src/vsock_conn.rs: one VsockConnection, the per-         *)
(* connection protocol engine of the vhost-user vsock backend.             *)
(*                                                                         *)
(* recv_pkt ("Produce") fills a guest-bound packet, send_pkt ("Consume")   *)
(* handles a guest-sent packet.  The host stream, the epoll facility and   *)
(* the guest are the environment: every outcome they can give is an input  *)
(* of the action that calls them.                                          *)
(***************************************************************************)
EXTENDS Integers, Sequences, FiniteSets, TLC

(***************************************************************************)
(* Bounds of the model.                                                    *)
(***************************************************************************)
\* longest payload of a guest-sent RW packet
MaxPayload == 2
\* calls made on the connection in one behaviour
MaxCalls == 3
\* payload capacity of the guest-bound packet buffer: packets of both
\* directions have the same size
PktBufCap == MaxPayload

(***************************************************************************)
(* Wrapping<u32>.  TLC's integers are 32-bit signed, so a u32 is kept as   *)
(* its two 16-bit halves <<hi, lo>>; the arithmetic below is exactly       *)
(* arithmetic modulo 2^32.                                                 *)
(***************************************************************************)
Half == 2^16

ToU32(n) == <<(n \div Half) % Half, n % Half>>

WrappingAdd(a, b) ==
    LET lo == a[2] + b[2]
        hi == a[1] + b[1] + (lo \div Half)
    IN  <<hi % Half, lo % Half>>

WrappingSub(a, b) ==
    LET lo == a[2] - b[2]
        hi == a[1] - b[1] - (IF lo < 0 THEN 1 ELSE 0)
    IN  <<hi % Half, lo % Half>>

\* std::cmp::min(n, x as usize) for a small n
MinUsize(n, x) == IF x[1] > 0 \/ x[2] > n THEN n ELSE x[2]

Zero32 == ToU32(0)
\* 2^32 - 2 : a counter two bytes short of wrapping
NearWrap == <<Half - 1, Half - 2>>

(***************************************************************************)
(* Protocol constants imported from vhu_vsock.                             *)
(***************************************************************************)
VSOCK_OP_INVALID == "INVALID"
VSOCK_OP_REQUEST == "REQUEST"
VSOCK_OP_RESPONSE == "RESPONSE"
VSOCK_OP_RST == "RST"
VSOCK_OP_SHUTDOWN == "SHUTDOWN"
VSOCK_OP_RW == "RW"
VSOCK_OP_CREDIT_UPDATE == "CREDIT_UPDATE"
VSOCK_OP_CREDIT_REQUEST == "CREDIT_REQUEST"
VSOCK_TYPE_STREAM == "STREAM"
VSOCK_FLAGS_SHUTDOWN_RCV == "SHUTDOWN_RCV"
VSOCK_FLAGS_SHUTDOWN_SEND == "SHUTDOWN_SEND"
CONN_TX_BUF_SIZE == ToU32(64 * 1024)

\* the operations a guest packet carries here: the five send_pkt handles and
\* one it ignores
GuestOps == {VSOCK_OP_REQUEST, VSOCK_OP_RESPONSE, VSOCK_OP_SHUTDOWN, VSOCK_OP_RW,
             VSOCK_OP_CREDIT_UPDATE, VSOCK_OP_CREDIT_REQUEST}

(***************************************************************************)
(* RxOps and RxQueue (rxops.rs, rxqueue.rs): an ordered, deduplicated      *)
(* queue of pending operations.                                            *)
(***************************************************************************)
RxOps == {"Request", "Rw", "Response", "CreditUpdate", "Reset"}

Range(s) == {s[i] : i \in DOMAIN s}

RxQueue_new == <<>>

contains(q, op) == op \in Range(q)

enqueue(q, op) == IF contains(q, op) THEN q ELSE Append(q, op)

pending_rx(q) == q # <<>>

peek(q) == IF q = <<>> THEN "None" ELSE Head(q)

\* the operations in a fixed order of kinds
KindOrder == <<"Request", "Rw", "Response", "CreditUpdate", "Reset">>

\* dequeue takes the queued operation that comes first in KindOrder,
\* whenever it was enqueued
dequeue_by_kind(q) ==
    IF q = <<>>
    THEN [op |-> "None", queue |-> q]
    ELSE LET i == CHOOSE k \in 1..Len(KindOrder) :
                      /\ contains(q, KindOrder[k])
                      /\ \A j \in 1..(k - 1) : ~contains(q, KindOrder[j])
             keep(x) == x # KindOrder[i]
         IN  [op |-> KindOrder[i], queue |-> SelectSeq(q, keep)]

dequeue(q) == IF q = <<>> THEN [op |-> "None", queue |-> q]
                          ELSE [op |-> Head(q), queue |-> Tail(q)]

(***************************************************************************)
(* LocalTxBuf (txbuf.rs): bytes accepted from the guest that the host      *)
(* stream has not taken yet.                                               *)
(***************************************************************************)
LocalTxBuf_new == <<>>

is_empty(b) == b = <<>>

\* push(bytes): Ok appends in order; the dedicated error leaves the buffer alone
push(b, bytes, ok) == IF ok THEN [ret |-> "Ok", buf |-> b \o bytes]
                            ELSE [ret |-> "LocalTxBufFull", buf |-> b]

(***************************************************************************)
(* The connection, the packet the dispatcher hands to recv_pkt, the host   *)
(* stream, and the last call with its result.                              *)
(***************************************************************************)
VARIABLES
    connect, peer_port, rx_queue, local_cid, local_port, guest_cid,
    fwd_cnt, last_fwd_cnt, peer_buf_alloc, peer_fwd_cnt, rx_cnt, tx_buf,
    stream, pkt, call, ret, ncalls

conn == <<connect, peer_port, rx_queue, local_cid, local_port, guest_cid,
          fwd_cnt, last_fwd_cnt, peer_buf_alloc, peer_fwd_cnt, rx_cnt, tx_buf>>

vars == <<conn, stream, pkt, call, ret, ncalls>>


(***************************************************************************)
(* Inputs the environment can give.                                        *)
(***************************************************************************)
HostCids == {2}
GuestCids == {3}
LocalPorts == {5000}
GuestPorts == {5001, 80}

\* a stream or epoll call that was not made
NoIO == [res |-> "none", n |-> 0]

\* outcomes of reading at most max bytes from the host stream
ReadOutcomes(max) == {[res |-> "err", n |-> 0]} \cup {[res |-> "ok", n |-> k] : k \in 0..max}

\* outcomes of stream.write(buf) for a buffer of len bytes
WriteOutcomes(len) == {[res |-> "err", n |-> 0], [res |-> "wouldblock", n |-> 0]}
                          \cup {[res |-> "ok", n |-> k] : k \in 0..len}

\* the payload a guest RW packet carries: the bytes 1, 2, ..., MaxPayload
Payloads == {[i \in 1..MaxPayload |-> i]}

\* the credit a guest announces in a packet header
\* <<buf_alloc, fwd_cnt>>: no room, room for one full packet, and a fwd_cnt
\* ahead of rx_cnt, which makes the subtraction wrap
GuestCredits == {<<Zero32, Zero32>>, <<ToU32(PktBufCap), Zero32>>,
                 <<ToU32(PktBufCap), ToU32(PktBufCap + 1)>>}
GuestBufAllocs == {c[1] : c \in GuestCredits}

\* the header of a packet buffer nothing has written yet
ZeroPkt == [src_cid |-> 0, dst_cid |-> 0, src_port |-> 0, dst_port |-> 0,
            type |-> "NONE", buf_alloc |-> Zero32, fwd_cnt |-> Zero32,
            op |-> VSOCK_OP_INVALID, len |-> 0, flags |-> {}]

\* a packet buffer the guest has recycled: it still holds the header of the
\* full RW packet it carried before
UsedPkt == [ZeroPkt EXCEPT !.type = VSOCK_TYPE_STREAM, !.op = VSOCK_OP_RW,
                           !.len = PktBufCap]

\* val is the number a call returned;
\* placed is the number of payload bytes recv_pkt has put in RW packets since
\* the last send_pkt (or the construction), and credit0 the peer_avail_credit()
\* the connection had right after it;
\* hdr is the credit <<buf_alloc, fwd_cnt>> the call was handed: in the guest
\* packet's header for send_pkt, as the peer_buf_alloc argument for
\* new_peer_init
NoCall == [fn |-> "new", op |-> "None", set_op |-> "None", rd |-> NoIO, wr |-> NoIO,
           epoll |-> "none", push |-> "none", data |-> <<>>, flags |-> {},
           hdr |-> <<Zero32, Zero32>>, val |-> Zero32,
           placed |-> 0, credit0 |-> Zero32]

(***************************************************************************)
(* Constructors.                                                           *)
(***************************************************************************)
new_local_init(lcid, lport, gcid, gport) ==
    [connect |-> FALSE, peer_port |-> gport, rx_queue |-> RxQueue_new,
     local_cid |-> lcid, local_port |-> lport, guest_cid |-> gcid,
     fwd_cnt |-> Zero32, last_fwd_cnt |-> Zero32, peer_buf_alloc |-> Zero32,
     peer_fwd_cnt |-> Zero32, rx_cnt |-> Zero32, tx_buf |-> LocalTxBuf_new]

\* the peer's allocation starts at 0, as in new_local_init
new_peer_init_zero_alloc(lcid, lport, gcid, gport, buf_alloc) ==
    [new_local_init(lcid, lport, gcid, gport) EXCEPT
        !.rx_queue = enqueue(RxQueue_new, "Response")]

new_peer_init(lcid, lport, gcid, gport, buf_alloc) ==
    [connect |-> FALSE, peer_port |-> gport,
     rx_queue |-> enqueue(RxQueue_new, "Response"),
     local_cid |-> lcid, local_port |-> lport, guest_cid |-> gcid,
     fwd_cnt |-> Zero32, last_fwd_cnt |-> Zero32, peer_buf_alloc |-> buf_alloc,
     peer_fwd_cnt |-> Zero32, rx_cnt |-> Zero32, tx_buf |-> LocalTxBuf_new]

Constructed ==
    {new_local_init(lc, lp, gc, 5001) : lc \in HostCids, lp \in LocalPorts, gc \in GuestCids}
    \cup {new_peer_init(lc[1], lc[2], lc[3], 5001, ba) :
              lc \in HostCids \X LocalPorts \X GuestCids, ba \in GuestBufAllocs}

\* the connection is the record c
IsConn(c) ==
    /\ connect = c.connect /\ peer_port = c.peer_port /\ rx_queue = c.rx_queue
    /\ local_cid = c.local_cid /\ local_port = c.local_port /\ guest_cid = c.guest_cid
    /\ fwd_cnt = c.fwd_cnt /\ last_fwd_cnt = c.last_fwd_cnt
    /\ peer_buf_alloc = c.peer_buf_alloc /\ peer_fwd_cnt = c.peer_fwd_cnt
    /\ rx_cnt = c.rx_cnt /\ tx_buf = c.tx_buf

\* the connection is fresh from new_local_init
ByLocalInit ==
    /\ \E lc \in HostCids, lp \in LocalPorts, gc \in GuestCids :
           IsConn(new_local_init(lc, lp, gc, 5001))
    /\ call = [NoCall EXCEPT !.op = "new_local_init"]

\* the connection is fresh from new_peer_init
ByPeerInit ==
    \E lc \in HostCids, lp \in LocalPorts, gc \in GuestCids, ba \in GuestBufAllocs :
        /\ IsConn(new_peer_init(lc, lp, gc, 5001, ba))
        /\ call = [NoCall EXCEPT !.op = "new_peer_init", !.hdr = <<ba, Zero32>>,
                                 !.credit0 = ba]

Init ==
    /\ ByLocalInit \/ ByPeerInit
    /\ stream = <<>>
    /\ pkt \in {ZeroPkt, UsedPkt}
    /\ ret = "None"
    /\ ncalls = 0

(***************************************************************************)
(* Credit arithmetic.                                                      *)
(***************************************************************************)
\* the subtraction stops at 0 where the wrapping one goes below it
peer_avail_credit_saturating ==
    LET d == WrappingSub(rx_cnt, peer_fwd_cnt)
    IN  IF peer_buf_alloc[1] < d[1] \/ (peer_buf_alloc[1] = d[1] /\ peer_buf_alloc[2] < d[2])
        THEN Zero32
        ELSE WrappingSub(peer_buf_alloc, d)

\* lines 333-335
peer_avail_credit == WrappingSub(peer_buf_alloc, WrappingSub(rx_cnt, peer_fwd_cnt))

\* the test made on the allocation alone
need_credit_update_no_alloc == peer_buf_alloc = Zero32

need_credit_update_from_peer == peer_avail_credit = Zero32

(***************************************************************************)
(* set_peer_port                                                           *)
(***************************************************************************)
\* a call that is not send_pkt: the count of bytes placed goes on
SameRun == [NoCall EXCEPT !.placed = call.placed, !.credit0 = call.credit0]

\* the connection takes another call: no call has panicked, and the
\* behaviour is within its bound
CanCall == ret # "Panic" /\ ncalls < MaxCalls

Called == CanCall /\ ncalls' = ncalls + 1

\* the dispatcher rewrites the port once, before it drives the connection
set_peer_port(p) ==
    /\ Called
    /\ call.fn = "new"
    /\ peer_port' = p
    /\ call' = [SameRun EXCEPT !.fn = "set_peer_port"]
    /\ ret' = "None"
    /\ UNCHANGED <<connect, rx_queue, local_cid, local_port, guest_cid, fwd_cnt,
                   last_fwd_cnt, peer_buf_alloc, peer_fwd_cnt, rx_cnt, tx_buf,
                   stream, pkt>>

(***************************************************************************)
(* recv_pkt                                                                *)
(***************************************************************************)
\* dst_port is the port the constructor was given
init_pkt_constructor_port(p) ==
    [p EXCEPT !.src_cid = local_cid, !.dst_cid = guest_cid,
              !.src_port = local_port, !.dst_port = 5001,
              !.type = VSOCK_TYPE_STREAM, !.buf_alloc = CONN_TX_BUF_SIZE,
              !.fwd_cnt = fwd_cnt]

init_pkt(p) ==
    [p EXCEPT !.src_cid = local_cid, !.dst_cid = guest_cid,
              !.src_port = local_port, !.dst_port = peer_port,
              !.type = VSOCK_TYPE_STREAM, !.buf_alloc = CONN_TX_BUF_SIZE,
              !.fwd_cnt = fwd_cnt]

set_op(p, op) == [p EXCEPT !.op = op]
set_len(p, n) == [p EXCEPT !.len = n]
set_flag(p, f) == [p EXCEPT !.flags = @ \cup {f}]

\* what a branch of recv_pkt leaves behind
RecvOut(p, cn, rx, lf, r, sop, rd, ep) ==
    [pkt |-> p, connect |-> cn, rx_cnt |-> rx, last_fwd_cnt |-> lf, ret |-> r,
     set_op |-> sop, rd |-> rd, epoll |-> ep]

\* the arm records the fwd_cnt it advertises
recv_Request_advertised(p) ==
    RecvOut(set_op(p, VSOCK_OP_REQUEST), connect, rx_cnt, fwd_cnt, "Ok",
            VSOCK_OP_REQUEST, NoIO, "none")

recv_Request(p) ==
    RecvOut(set_op(p, VSOCK_OP_REQUEST), connect, rx_cnt, last_fwd_cnt, "Ok",
            VSOCK_OP_REQUEST, NoIO, "none")

rw_not_connected_inverted == connect

\* line 134: no host-side application is listening
rw_not_connected == ~connect

max_read_len(cap) == MinUsize(cap, peer_avail_credit)

\* lines 156-179: the outcome of buf.read_from, then the bookkeeping
recv_Rw_read(p, rd, reg_ok) ==
    IF rd.res # "ok"
    THEN RecvOut(p, connect, rx_cnt, last_fwd_cnt, "Ok", "None", rd, "none")
    ELSE IF rd.n = 0
    THEN LET q == set_flag(set_flag(set_op(p, VSOCK_OP_SHUTDOWN),
                                    VSOCK_FLAGS_SHUTDOWN_RCV),
                           VSOCK_FLAGS_SHUTDOWN_SEND)
         IN  RecvOut(q, connect, WrappingAdd(rx_cnt, ToU32(q.len)), fwd_cnt, "Ok",
                     VSOCK_OP_SHUTDOWN, rd, "none")
    ELSE LET q == set_len(set_op(p, VSOCK_OP_RW), rd.n)
         IN  IF ~reg_ok
             THEN RecvOut(q, connect, rx_cnt, last_fwd_cnt, "EpollAdd",
                          VSOCK_OP_RW, rd, "fail")
             ELSE RecvOut(q, connect, WrappingAdd(rx_cnt, ToU32(q.len)), fwd_cnt,
                          "Ok", VSOCK_OP_RW, rd, "ok")

recv_Rw(p, has_buf, rd, reg_ok) ==
    IF rw_not_connected
    THEN RecvOut(set_op(p, VSOCK_OP_RST), connect, rx_cnt, last_fwd_cnt, "Ok",
                 VSOCK_OP_RST, NoIO, "none")
    ELSE IF need_credit_update_from_peer
    THEN RecvOut(set_op(p, VSOCK_OP_CREDIT_REQUEST), connect, rx_cnt, fwd_cnt, "Ok",
                 VSOCK_OP_CREDIT_REQUEST, NoIO, "none")
    ELSE IF ~has_buf
    THEN RecvOut(p, connect, rx_cnt, last_fwd_cnt, "PktBufMissing", "None", NoIO,
                 "none")
    ELSE recv_Rw_read(p, rd, reg_ok)

recv_Response(p) ==
    RecvOut(set_op(p, VSOCK_OP_RESPONSE), TRUE, rx_cnt, last_fwd_cnt, "Ok",
            VSOCK_OP_RESPONSE, NoIO, "none")

credit_update_always(q) == TRUE

\* line 190: q is the queue after the dequeue
credit_update_alone(q) == ~pending_rx(q)

recv_CreditUpdate(p, q) ==
    IF credit_update_alone(q)
    THEN RecvOut(set_op(p, VSOCK_OP_CREDIT_UPDATE), connect, rx_cnt, fwd_cnt, "Ok",
                 VSOCK_OP_CREDIT_UPDATE, NoIO, "none")
    ELSE RecvOut(p, connect, rx_cnt, last_fwd_cnt, "Ok", "None", NoIO, "none")

\* the arm returns Ok(())
recv_none_ok(p) ==
    RecvOut(p, connect, rx_cnt, last_fwd_cnt, "Ok", "None", NoIO, "none")

\* line 197
recv_none(p) ==
    RecvOut(p, connect, rx_cnt, last_fwd_cnt, "NoRequestRx", "None", NoIO, "none")

\* the match of lines 127-198 on the dequeued operation
recv_match(op, p, q, has_buf, rd, reg_ok) ==
    CASE op = "Request" -> recv_Request(p)
      [] op = "Rw" -> recv_Rw(p, has_buf, rd, reg_ok)
      [] op = "Response" -> recv_Response(p)
      [] op = "CreditUpdate" -> recv_CreditUpdate(p, q)
      [] OTHER -> recv_none(p)

\* the inputs that the branch taken reads; the others are pinned to one value
RecvInputs ==
    LET reads == /\ peek(rx_queue) = "Rw" /\ connect /\ ~need_credit_update_from_peer
    IN  IF ~reads
        THEN {<<TRUE, NoIO, TRUE>>}
        ELSE {<<FALSE, NoIO, TRUE>>}
             \cup {<<TRUE, rd, TRUE>> : rd \in ReadOutcomes(max_read_len(PktBufCap))}
             \cup {<<TRUE, rd, FALSE>> :
                      rd \in {r \in ReadOutcomes(max_read_len(PktBufCap)) :
                                  r.res = "ok" /\ r.n > 0}}

\* a call that fails puts the operation it dequeued back at the head
rx_queue_put_back(d, o) ==
    IF o.ret = "Ok" \/ d.op = "None" THEN d.queue ELSE <<d.op>> \o d.queue

\* line 127: the queue is what the one dequeue left; no arm enqueues
rx_queue_after(d, o) == d.queue

recv_pkt(has_buf, rd, reg_ok) ==
    \E d \in {dequeue(rx_queue)} :
    \E o \in {recv_match(d.op, init_pkt(pkt), d.queue, has_buf, rd, reg_ok)} :
        /\ Called
        /\ rx_queue' = rx_queue_after(d, o)
        /\ pkt' = o.pkt
        /\ connect' = o.connect
        /\ rx_cnt' = o.rx_cnt
        /\ last_fwd_cnt' = o.last_fwd_cnt
        /\ ret' = o.ret
        /\ call' = [SameRun EXCEPT !.fn = "recv_pkt", !.op = d.op, !.set_op = o.set_op,
                                   !.rd = o.rd, !.epoll = o.epoll,
                                   !.placed = @ + (IF o.set_op = VSOCK_OP_RW
                                                   THEN o.pkt.len ELSE 0)]
        /\ UNCHANGED <<peer_port, local_cid, local_port, guest_cid, fwd_cnt,
                       peer_buf_alloc, peer_fwd_cnt, tx_buf, stream>>


(***************************************************************************)
(* The host stream: the bytes written to it so far.  Guest data bytes are  *)
(* 1..MaxPayload; the handshake acknowledgement is ASCII text.             *)
(***************************************************************************)
RECURSIVE Decimal(_)
\* the decimal digits of n, as format!("{}", n) prints them
Decimal(n) == IF n < 10 THEN <<48 + n>> ELSE Decimal(n \div 10) \o <<48 + (n % 10)>>

\* the line names the port the connection was constructed with
Response_constructor_port(port) == <<79, 75, 32>> \o Decimal(5001) \o <<10>>

\* format!("OK {}\n", port).as_bytes()
Response(port) == <<79, 75, 32>> \o Decimal(port) \o <<10>>

IsData(b) == b \in 1..MaxPayload

DataOf(s) == SelectSeq(s, IsData)

(***************************************************************************)
(* send_bytes                                                              *)
(***************************************************************************)
SendOut(r, tb, st, fc, q, wr, ps) ==
    [ret |-> r, tx_buf |-> tb, stream |-> st, fwd_cnt |-> fc, rx_queue |-> q,
     wr |-> wr, push |-> ps]

\* lines 288-298: Ok(cnt) is cnt, WouldBlock is 0
written_count(wr) == IF wr.res = "ok" THEN wr.n ELSE 0

\* u32::saturating_add in place of the wrapping one
fwd_cnt_add_saturating(written) ==
    IF fwd_cnt[1] = Half - 1 /\ fwd_cnt[2] + written >= Half
    THEN <<Half - 1, Half - 1>>
    ELSE WrappingAdd(fwd_cnt, ToU32(written))

\* line 301
fwd_cnt_add(written) == WrappingAdd(fwd_cnt, ToU32(written))

\* the whole of buf in place of its unwritten tail
unwritten_whole(buf, written) == buf

\* line 306: &buf[written_count..]
unwritten(buf, written) == SubSeq(buf, written + 1, Len(buf))

\* line 281: data is already waiting in the buffer
must_buffer == ~is_empty(tx_buf)

send_bytes(buf, wr, push_ok) ==
    IF must_buffer
    THEN LET r == push(tx_buf, buf, push_ok)
         IN  SendOut(r.ret, r.buf, stream, fwd_cnt, rx_queue, NoIO, r.ret)
    ELSE IF wr.res = "err"
    THEN SendOut("UnixWrite", tx_buf, stream, fwd_cnt, rx_queue, wr, "none")
    ELSE LET written == written_count(wr)
             st == stream \o SubSeq(buf, 1, written)
             fc == fwd_cnt_add(written)
             q == enqueue(rx_queue, "CreditUpdate")
         IN  IF written # Len(buf)
             THEN LET r == push(tx_buf, unwritten(buf, written), push_ok)
                  IN  SendOut(r.ret, r.buf, st, fc, q, wr, r.ret)
             ELSE SendOut("Ok", tx_buf, st, fc, q, wr, "none")

(***************************************************************************)
(* send_pkt                                                                *)
(***************************************************************************)
\* what a branch of send_pkt leaves behind
ConsOut(r, cn, q, s, ep) ==
    [ret |-> r, connect |-> cn, rx_queue |-> q, tx_buf |-> s.tx_buf,
     stream |-> s.stream, fwd_cnt |-> s.fwd_cnt, wr |-> s.wr, push |-> s.push,
     epoll |-> ep]

\* a branch that does not touch the stream or the buffer
Untouched == SendOut("Ok", tx_buf, stream, fwd_cnt, rx_queue, NoIO, "none")

\* the acknowledgement is written and connect is left as it was
send_Response_not_connected(wr) ==
    ConsOut(IF wr.res = "ok" THEN "Ok" ELSE "Panic", connect, rx_queue,
            [Untouched EXCEPT !.stream = IF wr.res = "ok"
                                         THEN stream \o Response(peer_port)
                                         ELSE stream,
                              !.wr = wr],
            "none")

send_Response(wr) ==
    IF wr.res = "ok"
    THEN ConsOut("Ok", TRUE, rx_queue,
                 [Untouched EXCEPT !.stream = stream \o Response(peer_port), !.wr = wr],
                 "none")
    ELSE ConsOut("Panic", connect, rx_queue, [Untouched EXCEPT !.wr = wr], "none")

send_Rw(data, wr, push_ok) ==
    IF data = <<>>
    THEN ConsOut("Ok", connect, rx_queue, Untouched, "none")
    ELSE LET s == send_bytes(data, wr, push_ok)
         IN  ConsOut("Ok", connect, s.rx_queue, s, "none")

\* lines 241-254: epoll_modify, and epoll_register when that failed
send_CreditUpdate(ep) ==
    ConsOut(IF ep = "register_fail" THEN "Panic" ELSE "Ok", connect, rx_queue,
            Untouched, ep)

send_CreditRequest ==
    ConsOut("Ok", connect, enqueue(rx_queue, "CreditUpdate"), Untouched, "none")

shutdown_resets_unflushed(flags) ==
    /\ VSOCK_FLAGS_SHUTDOWN_RCV \in flags
    /\ VSOCK_FLAGS_SHUTDOWN_SEND \in flags

\* line 265
shutdown_resets(flags) ==
    /\ VSOCK_FLAGS_SHUTDOWN_RCV \in flags
    /\ VSOCK_FLAGS_SHUTDOWN_SEND \in flags
    /\ is_empty(tx_buf)

send_Shutdown(flags) ==
    ConsOut("Ok", connect,
            IF shutdown_resets(flags) THEN enqueue(rx_queue, "Reset") ELSE rx_queue,
            Untouched, "none")

send_match(g, wr, push_ok, ep) ==
    CASE g.op = VSOCK_OP_RESPONSE -> send_Response(wr)
      [] g.op = VSOCK_OP_RW -> send_Rw(g.data, wr, push_ok)
      [] g.op = VSOCK_OP_CREDIT_UPDATE -> send_CreditUpdate(ep)
      [] g.op = VSOCK_OP_CREDIT_REQUEST -> send_CreditRequest
      [] g.op = VSOCK_OP_SHUTDOWN -> send_Shutdown(g.flags)
      [] OTHER -> ConsOut("Ok", connect, rx_queue, Untouched, "none")

\* guest-sent packets: the header's credit, the operation, the flags (they
\* matter on SHUTDOWN only) and the payload (on RW only; <<>> is no payload)
GuestPkt(op, c, fl, d) ==
    [op |-> op, buf_alloc |-> c[1], fwd_cnt |-> c[2], flags |-> fl, data |-> d]

GuestPkts ==
    {GuestPkt(op, c, {}, <<>>) :
        op \in GuestOps \ {VSOCK_OP_SHUTDOWN}, c \in GuestCredits}
    \cup {GuestPkt(VSOCK_OP_RW, c, {}, d) : c \in GuestCredits, d \in Payloads}
    \cup {GuestPkt(VSOCK_OP_SHUTDOWN, c, fl, <<>>) :
              c \in GuestCredits,
              fl \in SUBSET {VSOCK_FLAGS_SHUTDOWN_RCV, VSOCK_FLAGS_SHUTDOWN_SEND}}

\* the outcomes of the calls send_pkt makes for g; the calls it does not make are
\* pinned to one value
SendInputs(g) ==
    CASE g.op = VSOCK_OP_RESPONSE ->
            {<<[res |-> r, n |-> 0], TRUE, "none">> : r \in {"ok", "err"}}
      [] g.op = VSOCK_OP_RW /\ g.data # <<>> ->
            {<<wr, ps, "none">> :
                wr \in (IF must_buffer THEN {NoIO} ELSE WriteOutcomes(Len(g.data))),
                ps \in BOOLEAN}
      [] g.op = VSOCK_OP_CREDIT_UPDATE ->
            {<<NoIO, TRUE, ep>> : ep \in {"modify_ok", "register_ok", "register_fail"}}
      [] OTHER -> {<<NoIO, TRUE, "none">>}

\* the credit is refreshed by the operations send_pkt handles only
peer_credit_handled_only(g) ==
    IF g.op \in {VSOCK_OP_RESPONSE, VSOCK_OP_RW, VSOCK_OP_CREDIT_UPDATE,
                 VSOCK_OP_CREDIT_REQUEST, VSOCK_OP_SHUTDOWN}
    THEN <<g.buf_alloc, g.fwd_cnt>>
    ELSE <<peer_buf_alloc, peer_fwd_cnt>>

\* lines 208-210: <<pkt.buf_alloc(), pkt.fwd_cnt()>>, taken before the match
peer_credit(g) == <<g.buf_alloc, g.fwd_cnt>>

send_pkt(g, wr, push_ok, ep) ==
    \E o \in {send_match(g, wr, push_ok, ep)} :
        /\ Called
        /\ peer_buf_alloc' = peer_credit(g)[1]
        /\ peer_fwd_cnt' = peer_credit(g)[2]
        /\ connect' = o.connect
        /\ rx_queue' = o.rx_queue
        /\ tx_buf' = o.tx_buf
        /\ stream' = o.stream
        /\ fwd_cnt' = o.fwd_cnt
        /\ ret' = o.ret
        /\ call' = [NoCall EXCEPT !.fn = "send_pkt", !.op = g.op, !.wr = o.wr,
                                  !.push = o.push, !.epoll = o.epoll,
                                  !.data = g.data, !.flags = g.flags,
                                  !.hdr = <<g.buf_alloc, g.fwd_cnt>>,
                                  !.credit0 = WrappingSub(peer_credit(g)[1],
                                                  WrappingSub(rx_cnt, peer_credit(g)[2]))]
        /\ UNCHANGED <<peer_port, local_cid, local_port, guest_cid, last_fwd_cnt,
                       rx_cnt, pkt>>

(***************************************************************************)
(* The dispatcher: it queues the operations it owes the guest, and on a    *)
(* writable stream flushes the transmit buffer.                            *)
(***************************************************************************)
DispatcherOps == {"Request", "Rw"}

enqueue_rx(op) ==
    /\ Called
    /\ rx_queue' = enqueue(rx_queue, op)
    /\ call' = [SameRun EXCEPT !.fn = "enqueue", !.op = op]
    /\ ret' = "None"
    /\ UNCHANGED <<connect, peer_port, local_cid, local_port, guest_cid, fwd_cnt,
                   last_fwd_cnt, peer_buf_alloc, peer_fwd_cnt, rx_cnt, tx_buf,
                   stream, pkt>>

\* the stream takes the first k buffered bytes
flush_to(k) ==
    /\ Called
    /\ k \in 1..Len(tx_buf)
    /\ stream' = stream \o SubSeq(tx_buf, 1, k)
    /\ tx_buf' = SubSeq(tx_buf, k + 1, Len(tx_buf))
    /\ fwd_cnt' = WrappingAdd(fwd_cnt, ToU32(k))
    /\ call' = [SameRun EXCEPT !.fn = "flush_to", !.wr = [res |-> "ok", n |-> k]]
    /\ ret' = "None"
    /\ UNCHANGED <<connect, peer_port, rx_queue, local_cid, local_port, guest_cid,
                   last_fwd_cnt, peer_buf_alloc, peer_fwd_cnt, rx_cnt, pkt>>

(***************************************************************************)
(* Specification.                                                          *)
(***************************************************************************)
SetPeerPort == CanCall /\ \E p \in GuestPorts : set_peer_port(p)

Enqueue == CanCall /\ \E op \in DispatcherOps : enqueue_rx(op)

Produce == CanCall /\ \E i \in RecvInputs : recv_pkt(i[1], i[2], i[3])

Consume ==
    /\ CanCall
    /\ \E g \in GuestPkts : \E i \in SendInputs(g) : send_pkt(g, i[1], i[2], i[3])

Flush == CanCall /\ \E k \in 1..Len(tx_buf) : flush_to(k)

Next == SetPeerPort \/ Enqueue \/ Produce \/ Consume \/ Flush

Spec == Init /\ [][Next]_vars

(***************************************************************************)
(* A connection that has been in use for a long time: the handshake is     *)
(* done, 2^32 - 2 bytes have gone each way and the guest has forwarded     *)
(* all it was sent, so every counter is two bytes short of wrapping.  The  *)
(* stream holds the bytes written from here on.                            *)
(***************************************************************************)
LongRunning ==
    {[new_local_init(2, 5000, 3, 5001) EXCEPT
          !.connect = TRUE, !.rx_queue = q,
          !.fwd_cnt = NearWrap, !.last_fwd_cnt = NearWrap,
          !.rx_cnt = NearWrap, !.peer_fwd_cnt = NearWrap,
          !.peer_buf_alloc = ToU32(PktBufCap)] : q \in {<<>>, <<"Rw">>}}

InitLong ==
    \/ Init
    \/ /\ \E c \in LongRunning : IsConn(c)
       /\ stream = <<>>
       /\ pkt = UsedPkt
       /\ call = [NoCall EXCEPT !.credit0 = ToU32(PktBufCap)]
       /\ ret = "None"
       /\ ncalls = 0

SpecLong == InitLong /\ [][Next]_vars

(***************************************************************************)
(* Properties.  A step of recv_pkt or send_pkt is one whose call' names    *)
(* it; unprimed variables are the connection before the call.              *)
(***************************************************************************)
RecvStep(op) == call'.fn = "recv_pkt" /\ call'.op = op

SendStep(op) == call'.fn = "send_pkt" /\ call'.op = op

BothShutdownFlags(flags) ==
    {VSOCK_FLAGS_SHUTDOWN_RCV, VSOCK_FLAGS_SHUTDOWN_SEND} \subseteq flags

\* C1: recv_pkt sets the operation RW only on a connection that was connected
\* at the call; when it dequeues Rw on a connection that is not, it sets RST,
\* returns Ok, makes no read and leaves rx_cnt and last_fwd_cnt alone.
C1_RstUnlessConnected ==
    [][/\ (call'.fn = "recv_pkt" /\ call'.set_op = VSOCK_OP_RW) => connect
       /\ (RecvStep("Rw") /\ ~connect) =>
              /\ pkt'.op = VSOCK_OP_RST
              /\ call'.set_op = VSOCK_OP_RST
              /\ ret' = "Ok"
              /\ call'.rd = NoIO
              /\ rx_cnt' = rx_cnt
              /\ last_fwd_cnt' = last_fwd_cnt]_vars

C1_Witness ==
    /\ call.fn = "recv_pkt" /\ call.op = "Rw"
    /\ ~connect
    /\ pkt.op = VSOCK_OP_RST
    /\ ret = "Ok"

\* C2: when recv_pkt dequeues Rw on a connected connection with credit and
\* the read from the host stream fails, the call does not return Ok.
C2_ReadErrorFails ==
    (call.fn = "recv_pkt" /\ call.op = "Rw" /\ call.rd.res = "err") => ret # "Ok"

\* C3: when recv_pkt dequeues Rw on a connected connection with credit and
\* the stream delivers n > 0 bytes, the packet is RW with length n, rx_cnt
\* grows by n (wrapping) and last_fwd_cnt becomes fwd_cnt, whether the
\* epoll registration that follows succeeds or fails.
C3_DataAccounted ==
    [][(RecvStep("Rw") /\ call'.rd.res = "ok" /\ call'.rd.n > 0) =>
          /\ pkt'.op = VSOCK_OP_RW
          /\ pkt'.len = call'.rd.n
          /\ rx_cnt' = WrappingAdd(rx_cnt, ToU32(call'.rd.n))
          /\ last_fwd_cnt' = fwd_cnt]_vars

\* C4: send_pkt returns Ok for every operation and every outcome of the
\* calls it makes.
C4_ConsumeReturnsOk ==
    call.fn = "send_pkt" => ret = "Ok"

\* C5: send_pkt of a SHUTDOWN packet enqueues Reset if and only if both
\* shutdown flags are set and the transmit buffer is empty at the call, and
\* otherwise leaves the queue as it was; no step adds Reset to the queue
\* while the transmit buffer holds data.
C5_ResetOnlyWhenFlushed ==
    [][/\ SendStep(VSOCK_OP_SHUTDOWN) =>
              IF BothShutdownFlags(call'.flags) /\ tx_buf = <<>>
              THEN /\ contains(rx_queue', "Reset")
                   /\ rx_queue' = IF contains(rx_queue, "Reset") THEN rx_queue
                                   ELSE Append(rx_queue, "Reset")
              ELSE rx_queue' = rx_queue
       /\ (~contains(rx_queue, "Reset") /\ contains(rx_queue', "Reset")) =>
              (tx_buf = <<>> /\ tx_buf' = <<>>)]_vars

C5_Witness ==
    /\ call.fn = "send_pkt" /\ call.op = VSOCK_OP_SHUTDOWN
    /\ BothShutdownFlags(call.flags)
    /\ tx_buf # <<>>
    /\ ~contains(rx_queue, "Reset")
    /\ ret = "Ok"

\* an RW packet with a payload is consumed
SendsData == SendStep(VSOCK_OP_RW) /\ call'.data # <<>>

SendOk == call'.wr.res # "err" /\ call'.push # "LocalTxBufFull"

\* the bytes the step writes to the host stream
Written == Len(stream') - Len(stream)

\* C7 as stated: after send_pkt of an RW packet with a payload whose send path
\* returns Ok, CreditUpdate is queued and fwd_cnt has grown (wrapping) by the
\* bytes written to the stream.
C7_CreditUpdateQueued ==
    [][(SendsData /\ SendOk) =>
          /\ contains(rx_queue', "CreditUpdate")
          /\ fwd_cnt' = WrappingAdd(fwd_cnt, ToU32(Written))]_vars

\* C7 as amended: fwd_cnt grows (wrapping) by the bytes written; CreditUpdate
\* is queued when the transmit buffer was empty at the call, so that a write
\* was attempted; a payload appended to a buffer that already held data
\* leaves the queue as it was.
C7_CreditUpdateAfterWrite ==
    [][(SendsData /\ SendOk) =>
          /\ fwd_cnt' = WrappingAdd(fwd_cnt, ToU32(Written))
          /\ tx_buf = <<>> => contains(rx_queue', "CreditUpdate")
          /\ tx_buf # <<>> => (rx_queue' = rx_queue /\ Written = 0)]_vars

\* a write that takes fwd_cnt past 2^32
C7_Witness ==
    /\ call.fn = "send_pkt" /\ call.op = VSOCK_OP_RW
    /\ call.wr.res = "ok" /\ call.wr.n = Len(call.data) /\ call.wr.n >= 2
    /\ fwd_cnt = WrappingAdd(NearWrap, ToU32(call.wr.n))
    /\ contains(rx_queue, "CreditUpdate")

\* C8: when recv_pkt dequeues Rw on a connected connection whose
\* peer_avail_credit is 0, it sets CREDIT_REQUEST, sets last_fwd_cnt to
\* fwd_cnt, returns Ok, makes no read and leaves rx_cnt alone.
C8_CreditRequest ==
    [][(RecvStep("Rw") /\ connect /\ peer_avail_credit = Zero32) =>
          /\ pkt'.op = VSOCK_OP_CREDIT_REQUEST
          /\ call'.set_op = VSOCK_OP_CREDIT_REQUEST
          /\ last_fwd_cnt' = fwd_cnt
          /\ ret' = "Ok"
          /\ call'.rd = NoIO
          /\ rx_cnt' = rx_cnt]_vars

C8_Witness ==
    /\ call.fn = "recv_pkt" /\ call.op = "Rw"
    /\ connect
    /\ peer_avail_credit = Zero32
    /\ pkt.op = VSOCK_OP_CREDIT_REQUEST
    /\ last_fwd_cnt = fwd_cnt
    /\ ret = "Ok"

\* C9: when recv_pkt dequeues Rw on a connected connection with credit and
\* the read returns 0 bytes, the packet is SHUTDOWN with both shutdown flags,
\* the call returns Ok and rx_cnt is what it was, whatever the packet buffer
\* held before.
C9_ShutdownKeepsRxCnt ==
    [][(RecvStep("Rw") /\ call'.rd.res = "ok" /\ call'.rd.n = 0) =>
          /\ pkt'.op = VSOCK_OP_SHUTDOWN
          /\ BothShutdownFlags(pkt'.flags)
          /\ ret' = "Ok"
          /\ rx_cnt' = rx_cnt]_vars

\* C10: when recv_pkt dequeues CreditUpdate it returns Ok and the entry is
\* gone from the queue; if nothing else is queued it sets CREDIT_UPDATE and
\* sets last_fwd_cnt to fwd_cnt, otherwise it sets no operation and leaves
\* last_fwd_cnt alone.
C10_CreditUpdateAlone ==
    [][RecvStep("CreditUpdate") =>
          /\ ret' = "Ok"
          /\ rx_queue' = Tail(rx_queue)
          /\ ~contains(rx_queue', "CreditUpdate")
          /\ IF Len(rx_queue) = 1
             THEN /\ pkt'.op = VSOCK_OP_CREDIT_UPDATE
                  /\ call'.set_op = VSOCK_OP_CREDIT_UPDATE
                  /\ last_fwd_cnt' = fwd_cnt
             ELSE /\ pkt'.op = pkt.op
                  /\ call'.set_op = "None"
                  /\ last_fwd_cnt' = last_fwd_cnt]_vars

C10_Witness ==
    /\ call.fn = "recv_pkt" /\ call.op = "CreditUpdate"
    /\ rx_queue # <<>>
    /\ call.set_op = "None"
    /\ ret = "Ok"

\* C11: recv_pkt called with an empty queue returns Err(NoRequestRx) and
\* leaves connect, fwd_cnt, last_fwd_cnt, rx_cnt, peer_buf_alloc,
\* peer_fwd_cnt, the queue and the transmit buffer as they were.
C11_EmptyQueueFails ==
    [][(call'.fn = "recv_pkt" /\ rx_queue = <<>>) =>
          /\ ret' = "NoRequestRx"
          /\ call'.op = "None"
          /\ UNCHANGED <<connect, fwd_cnt, last_fwd_cnt, rx_cnt, peer_buf_alloc,
                         peer_fwd_cnt, rx_queue, tx_buf>>]_vars

\* the call on an empty queue, made on a connection that has buffered data
C11_Witness ==
    /\ call.fn = "recv_pkt" /\ call.op = "None"
    /\ ret = "NoRequestRx"
    /\ rx_queue = <<>>
    /\ tx_buf # <<>>

\* C12: after every send_pkt, whatever the packet's operation (the ones
\* send_pkt ignores and an RW packet without payload included),
\* peer_buf_alloc is the buf_alloc and peer_fwd_cnt the fwd_cnt of the
\* packet's header.
C12_PeerCreditRefreshed ==
    call.fn = "send_pkt" =>
        /\ peer_buf_alloc = call.hdr[1]
        /\ peer_fwd_cnt = call.hdr[2]

\* an operation send_pkt ignores, with a credit the connection did not have
C12_Witness ==
    /\ call.fn = "send_pkt" /\ call.op = VSOCK_OP_REQUEST
    /\ call.hdr = <<ToU32(PktBufCap), ToU32(PktBufCap + 1)>>
    /\ peer_buf_alloc = ToU32(PktBufCap)
    /\ peer_fwd_cnt = ToU32(PktBufCap + 1)
    /\ ret = "Ok"

\* the bytes of "OK 5001\n" and of "OK 80\n"
Ok5001 == <<79, 75, 32, 53, 48, 48, 49, 10>>
Ok80 == <<79, 75, 32, 56, 48, 10>>

\* C13: send_pkt of a RESPONSE packet whose write succeeds appends the line
\* "OK <peer_port>\n" to the host stream, with the peer_port the connection
\* has at the call (set by set_peer_port, or else by the constructor), leaves
\* connect true and does not change fwd_cnt.
C13_AckLine ==
    [][(SendStep(VSOCK_OP_RESPONSE) /\ call'.wr.res = "ok") =>
          /\ peer_port \in {5001, 80}
          /\ stream' = stream \o (IF peer_port = 80 THEN Ok80 ELSE Ok5001)
          /\ connect'
          /\ ret' = "Ok"
          /\ fwd_cnt' = fwd_cnt]_vars

\* the acknowledgement written after set_peer_port(80), on a used connection
C13_Witness ==
    /\ call.fn = "send_pkt" /\ call.op = VSOCK_OP_RESPONSE
    /\ call.wr.res = "ok"
    /\ peer_port = 80
    /\ stream = Ok80
    /\ connect

\* C14: a connection fresh from new_local_init is not connected, has an
\* empty queue, every counter 0 and need_credit_update_from_peer() true; one
\* fresh from new_peer_init is not connected, has Response as the only queued
\* operation and has the peer_buf_alloc it was given.
C14_InitialState ==
    /\ (call.fn = "new" /\ call.op = "new_local_init") =>
           /\ ~connect
           /\ rx_queue = <<>>
           /\ fwd_cnt = <<0, 0>> /\ last_fwd_cnt = <<0, 0>>
           /\ rx_cnt = <<0, 0>> /\ peer_fwd_cnt = <<0, 0>>
           /\ peer_buf_alloc = <<0, 0>>
           /\ need_credit_update_from_peer
    /\ (call.fn = "new" /\ call.op = "new_peer_init") =>
           /\ ~connect
           /\ rx_queue = <<"Response">>
           /\ peer_buf_alloc = call.hdr[1]

\* new_peer_init given a non-zero allocation
C14_Witness ==
    /\ call.fn = "new" /\ call.op = "new_peer_init"
    /\ call.hdr[1] = ToU32(PktBufCap)
    /\ peer_buf_alloc = ToU32(PktBufCap)
    /\ rx_queue = <<"Response">>
    /\ ~connect

(***************************************************************************)
(* The credit arithmetic on its own: peer_avail_credit and                 *)
(* need_credit_update_from_peer called on connections whose peer_buf_alloc, *)
(* rx_cnt and peer_fwd_cnt take values from both ends and the middle of    *)
(* the u32 range.                                                          *)
(***************************************************************************)
CreditValues == {Zero32, ToU32(1), ToU32(32768), ToU32(65536),
                 <<Half \div 2, 0>>, <<Half - 1, Half - 1>>}

InitCredit ==
    /\ \E a \in CreditValues, r \in CreditValues, f \in CreditValues :
           IsConn([new_local_init(2, 5000, 3, 5001) EXCEPT
                      !.connect = TRUE, !.peer_buf_alloc = a, !.rx_cnt = r,
                      !.peer_fwd_cnt = f])
    /\ stream = <<>>
    /\ pkt = ZeroPkt
    /\ call = NoCall
    /\ ret = "None"
    /\ ncalls = 0

\* a call of peer_avail_credit(&self): the number it returns
PeerAvailCredit ==
    /\ Called
    /\ call' = [NoCall EXCEPT !.fn = "peer_avail_credit", !.val = peer_avail_credit]
    /\ ret' = "None"
    /\ UNCHANGED <<conn, stream, pkt>>

\* a call of need_credit_update_from_peer(&self): the boolean it returns
NeedCreditUpdateFromPeer ==
    /\ Called
    /\ call' = [NoCall EXCEPT !.fn = "need_credit_update_from_peer"]
    /\ ret' = IF need_credit_update_from_peer THEN "true" ELSE "false"
    /\ UNCHANGED <<conn, stream, pkt>>

NextCredit == PeerAvailCredit \/ NeedCreditUpdateFromPeer

SpecCredit == InitCredit /\ [][NextCredit]_vars

\* C15: peer_avail_credit() is peer_buf_alloc - (rx_cnt - peer_fwd_cnt)
\* modulo 2^32, that is, the one u32 x with x + rx_cnt = peer_buf_alloc +
\* peer_fwd_cnt modulo 2^32; need_credit_update_from_peer() is true exactly
\* when that number is 0; neither changes the connection.  With buf_alloc
\* 65536 and peer_fwd_cnt 0: rx_cnt 0 gives 65536, 32768 gives 32768, 65536
\* gives 0.
C15_CreditFormula ==
    [][/\ call'.fn = "peer_avail_credit" =>
              /\ WrappingAdd(call'.val, rx_cnt) = WrappingAdd(peer_buf_alloc, peer_fwd_cnt)
              /\ (peer_buf_alloc = <<1, 0>> /\ peer_fwd_cnt = <<0, 0>>) =>
                     /\ rx_cnt = <<0, 0>> => call'.val = <<1, 0>>
                     /\ rx_cnt = <<0, 32768>> => call'.val = <<0, 32768>>
                     /\ rx_cnt = <<1, 0>> => call'.val = <<0, 0>>
              /\ UNCHANGED conn
       /\ call'.fn = "need_credit_update_from_peer" =>
              /\ ret' = "true" <=>
                     WrappingAdd(peer_buf_alloc, peer_fwd_cnt) = rx_cnt
              /\ ret' \in {"true", "false"}
              /\ UNCHANGED conn]_vars

\* both subtractions wrap: 0 - (0 - 1) is 1
C15_Witness ==
    /\ call.fn = "peer_avail_credit"
    /\ peer_buf_alloc = <<0, 0>> /\ rx_cnt = <<0, 0>> /\ peer_fwd_cnt = <<0, 1>>
    /\ call.val = <<0, 1>>

(***************************************************************************)
(* The handshake of a host-initiated connection: the dispatcher queues     *)
(* Request and Rw, recv_pkt produces packets, and the guest answers with   *)
(* RESPONSE packets that announce room.  The five calls of the handshake   *)
(* are counted against MaxCalls from below 0.                              *)
(***************************************************************************)
HandshakeCalls == 5

InitHandshake ==
    /\ ByLocalInit
    /\ stream = <<>>
    /\ pkt \in {ZeroPkt, UsedPkt}
    /\ ret = "None"
    /\ ncalls = MaxCalls - HandshakeCalls

\* send_pkt of a RESPONSE packet carrying a non-zero buf_alloc
ConsumeResponse ==
    /\ CanCall
    /\ \E c \in {x \in GuestCredits : x[1] # Zero32} :
       \E g \in {GuestPkt(VSOCK_OP_RESPONSE, c, {}, <<>>)} :
       \E i \in SendInputs(g) : send_pkt(g, i[1], i[2], i[3])

NextHandshake == Enqueue \/ Produce \/ ConsumeResponse

SpecHandshake == InitHandshake /\ [][NextHandshake]_vars

\* C16: on a host-initiated connection driven by enqueue Request, recv_pkt,
\* send_pkt(RESPONSE with room), enqueue Rw, recv_pkt: the recv_pkt that
\* dequeues Request emits REQUEST and does not connect; connect is false
\* until a RESPONSE is consumed, true once one is, and true from then on; a
\* recv_pkt that dequeues Rw emits RST while connect is false, and RW when
\* connect is true and the host stream gave data.
C16_HandshakeOrder ==
    [][/\ RecvStep("Request") =>
              (pkt'.op = VSOCK_OP_REQUEST /\ ret' = "Ok" /\ connect' = connect)
       /\ (SendStep(VSOCK_OP_RESPONSE) /\ ret' = "Ok") => connect'
       /\ (~connect /\ connect') => SendStep(VSOCK_OP_RESPONSE)
       /\ connect => connect'
       /\ (RecvStep("Rw") /\ ~connect) => pkt'.op = VSOCK_OP_RST
       /\ (RecvStep("Rw") /\ connect /\ call'.rd.res = "ok" /\ call'.rd.n > 0) =>
              pkt'.op = VSOCK_OP_RW]_vars

\* the end of the five calls: the acknowledgement is on the stream, both
\* queued operations are gone and the last recv_pkt emitted RW
C16_Witness ==
    /\ ncalls = MaxCalls
    /\ call.fn = "recv_pkt" /\ call.op = "Rw"
    /\ pkt.op = VSOCK_OP_RW /\ pkt.len = call.rd.n /\ call.rd.n > 0
    /\ ret = "Ok"
    /\ connect
    /\ stream = Ok5001
    /\ rx_queue = <<>>
    /\ rx_cnt = ToU32(call.rd.n)

(***************************************************************************)
(* The queue on its own: operations of every kind are enqueued in every    *)
(* order on a host-initiated connection, and recv_pkt dequeues them.       *)
(***************************************************************************)
QueueCalls == 6

InitQueue ==
    /\ ByLocalInit
    /\ stream = <<>>
    /\ pkt = ZeroPkt
    /\ ret = "None"
    /\ ncalls = MaxCalls - QueueCalls

EnqueueAny == CanCall /\ \E op \in RxOps : enqueue_rx(op)

NextQueue == EnqueueAny \/ Produce

SpecQueue == InitQueue /\ [][NextQueue]_vars

\* C17: enqueue of a kind that is queued leaves the queue as it is, and of
\* one that is not puts it behind the others; no kind is queued twice;
\* dequeue returns and removes the operation enqueued first.
C17_FifoDedup ==
    [][/\ call'.fn = "enqueue" =>
              rx_queue' = IF \E i \in DOMAIN rx_queue : rx_queue[i] = call'.op
                          THEN rx_queue
                          ELSE Append(rx_queue, call'.op)
       /\ (call'.fn = "recv_pkt" /\ rx_queue # <<>>) =>
              (call'.op = Head(rx_queue) /\ rx_queue' = Tail(rx_queue))
       /\ \A i \in DOMAIN rx_queue' : \A j \in DOMAIN rx_queue' :
              i # j => rx_queue'[i] # rx_queue'[j]]_vars

\* CreditUpdate, enqueued before Request and Rw, is dequeued before them
C17_Witness ==
    /\ call.fn = "recv_pkt" /\ call.op = "CreditUpdate"
    /\ rx_queue = <<"Rw", "Request">>

\* C18: every recv_pkt, one that fails included, leaves in the packet header
\* src_cid = local_cid, dst_cid = guest_cid, src_port = local_port, dst_port
\* = the peer_port of the moment, type STREAM, buf_alloc = CONN_TX_BUF_SIZE
\* and fwd_cnt = the connection's fwd_cnt; none of these fields of the
\* connection is changed.
C18_HeaderFilled ==
    [][call'.fn = "recv_pkt" =>
          /\ pkt'.src_cid = local_cid
          /\ pkt'.dst_cid = guest_cid
          /\ pkt'.src_port = local_port
          /\ pkt'.dst_port = peer_port
          /\ pkt'.type = VSOCK_TYPE_STREAM
          /\ pkt'.buf_alloc = <<1, 0>>
          /\ pkt'.fwd_cnt = fwd_cnt
          /\ UNCHANGED <<local_cid, guest_cid, local_port, peer_port, fwd_cnt>>]_vars

\* a recv_pkt that fails, after set_peer_port(80)
C18_Witness ==
    /\ call.fn = "recv_pkt"
    /\ ret = "NoRequestRx"
    /\ peer_port = 80
    /\ pkt.dst_port = 80
    /\ pkt.type = VSOCK_TYPE_STREAM
    /\ pkt.buf_alloc = <<1, 0>>

\* recv_pkt returns Ok with an operation set in the packet
Emits == call'.fn = "recv_pkt" /\ ret' = "Ok" /\ call'.set_op # "None"

\* C19 as stated: after every recv_pkt that returns Ok and emits a packet,
\* last_fwd_cnt is the fwd_cnt in that packet's header, whichever operation
\* was emitted.
C19_LastFwdCntAdvertised ==
    [][Emits => last_fwd_cnt' = pkt'.fwd_cnt]_vars

\* C19 as amended: after a recv_pkt that returns Ok and emits CREDIT_REQUEST,
\* CREDIT_UPDATE, RW or SHUTDOWN, last_fwd_cnt is the fwd_cnt in the packet's
\* header; one that emits REQUEST, RESPONSE or RST, or sets no operation,
\* leaves last_fwd_cnt as it was.
C19_LastFwdCntOnCreditAndData ==
    [][(call'.fn = "recv_pkt" /\ ret' = "Ok") =>
          IF call'.set_op \in {VSOCK_OP_CREDIT_REQUEST, VSOCK_OP_CREDIT_UPDATE,
                               VSOCK_OP_RW, VSOCK_OP_SHUTDOWN}
          THEN last_fwd_cnt' = pkt'.fwd_cnt /\ last_fwd_cnt' = fwd_cnt
          ELSE last_fwd_cnt' = last_fwd_cnt]_vars

\* a REQUEST whose header advertises a fwd_cnt that last_fwd_cnt does not have
C19_Witness ==
    /\ call.fn = "recv_pkt" /\ call.set_op = VSOCK_OP_REQUEST
    /\ ret = "Ok"
    /\ pkt.fwd_cnt = fwd_cnt
    /\ last_fwd_cnt # fwd_cnt

(***************************************************************************)
(* Teardown: the guest sends data and SHUTDOWN packets, the dispatcher     *)
(* flushes the transmit buffer when the stream is writable and calls       *)
(* recv_pkt.  The guest may stop sending at any time; the dispatcher does  *)
(* not leave a flush or a queued operation undone forever.                 *)
(***************************************************************************)
TeardownCalls == 5

InitTeardown ==
    /\ ByLocalInit
    /\ stream = <<>>
    /\ pkt = ZeroPkt
    /\ ret = "None"
    /\ ncalls = MaxCalls - TeardownCalls

\* the guest's packets of a teardown: data, and SHUTDOWN with any flags
TeardownPkts ==
    {g \in GuestPkts :
        /\ g.buf_alloc = ToU32(PktBufCap) /\ g.fwd_cnt = Zero32
        /\ \/ g.op = VSOCK_OP_SHUTDOWN
           \/ g.op = VSOCK_OP_RW /\ g.data # <<>>}

ConsumeTeardown ==
    /\ CanCall
    /\ \E g \in TeardownPkts : \E i \in SendInputs(g) : send_pkt(g, i[1], i[2], i[3])

\* the dispatcher calls recv_pkt when an operation is pending
ProducePending == rx_queue # <<>> /\ Produce

NextTeardown == ConsumeTeardown \/ Flush \/ ProducePending

SpecTeardown ==
    /\ InitTeardown
    /\ [][NextTeardown]_vars
    /\ WF_vars(Flush)
    /\ WF_vars(ProducePending)

\* a SHUTDOWN with both flags has just been consumed with data still buffered
ShutdownDeferred ==
    /\ call.fn = "send_pkt" /\ call.op = VSOCK_OP_SHUTDOWN
    /\ BothShutdownFlags(call.flags)
    /\ tx_buf # <<>>

\* C20: if a SHUTDOWN with both flags is consumed while the transmit buffer
\* holds data, then from the moment the buffer is empty again Reset is
\* eventually queued (or the behaviour has used up its calls), with no
\* further SHUTDOWN asked of the guest.
C20_TeardownDeferred ==
    [](ShutdownDeferred =>
          [](tx_buf = <<>> => <>(contains(rx_queue, "Reset") \/ ~CanCall)))

\* C21: recv_pkt returns Err(NoRequestRx) only when the queue was empty at
\* the call; a call that dequeues an operation, of whichever kind (Reset, as
\* queued by a consumed SHUTDOWN, included), does not return it.
C21_NoRequestRxOnlyWhenEmpty ==
    [][(call'.fn = "recv_pkt" /\ ret' = "NoRequestRx") => rx_queue = <<>>]_vars

\* C22: every RW packet recv_pkt emits carries at most min(payload capacity,
\* peer_avail_credit() at the call) bytes, and the payload bytes put in RW
\* packets since the last send_pkt never exceed the peer_avail_credit() the
\* connection had after it, a recv_pkt that returns an error after filling
\* the packet included.
C22_CreditNotOverrun ==
    [][/\ (call'.fn = "recv_pkt" /\ call'.set_op = VSOCK_OP_RW) =>
              /\ pkt'.len <= PktBufCap
              /\ peer_avail_credit[1] > 0 \/ pkt'.len <= peer_avail_credit[2]
       /\ call'.credit0[1] > 0 \/ call'.placed <= call'.credit0[2]]_vars

\* C23: every recv_pkt called with a non-empty queue takes the head off the
\* queue and leaves the other operations and their order as they were,
\* whether it returns Ok or an error (PktBufMissing, the registration error,
\* NoRequestRx for a kind it does not handle); the operation is not put back.
C23_OneDequeue ==
    [][(call'.fn = "recv_pkt" /\ rx_queue # <<>>) =>
          /\ Len(rx_queue') = Len(rx_queue) - 1
          /\ \A i \in 1..Len(rx_queue') : rx_queue'[i] = rx_queue[i + 1]
          /\ call'.op = rx_queue[1]
          /\ ret' \in {"Ok", "PktBufMissing", "EpollAdd", "NoRequestRx"}]_vars

\* a recv_pkt that failed on Rw, with another operation left in the queue
C23_Witness ==
    /\ call.fn = "recv_pkt" /\ call.op = "Rw"
    /\ ret \in {"PktBufMissing", "EpollAdd"}
    /\ rx_queue # <<>>
    /\ ~contains(rx_queue, "Rw")

====
